---- MODULE Spec2Model ----
(***************************************************************************)
(* The remote terminal bridge of src/DOAS/Element/server.py: the registry  *)
(* `terminals`, the four socket event handlers and the background relay   *)
(* read_terminal_output, over a small model of the operating system (file  *)
(* descriptor table, pseudo-terminals, shell processes).                   *)
(*                                                                         *)
(* Every handler invocation runs in a thread of its own; a step of the     *)
(* model is one statement of the handler, so that handlers and relays      *)
(* interleave between statements.  SeqSpec delivers the events one at a    *)
(* time (a handler starts only when no other handler is running).          *)
(*                                                                         *)
(* Two more programs of the repository are modelled next to it, each with  *)
(* variables and a specification of its own: the installer window of       *)
(* src/DOAS/Element/SetupNexus.py (InstallerSpec: the Install and Cancel   *)
(* buttons, the licence checkbox, the installation threads and the message *)
(* queue polled by check_queue) and the sensor probe of                    *)
(* src/DOAS/Element/test_vibration.py (ProbeSpec).  A specification moves  *)
(* the variables of its own program and leaves the others as Init made     *)
(* them.                                                                   *)
(***************************************************************************)
EXTENDS Integers, Sequences, FiniteSets, TLC

\* ------------------------------------------------------------------ bounds
NumHandlers == 2      \* handler invocations that may run at the same time
MaxEvents == 4        \* what the environment does in one run: socket events
                      \* delivered, output chunks and exits of the shells
MaxConcEvents == 3    \* the same, in the runs where handlers overlap (Spec)
MaxInstalls == 2      \* installation threads the installer window may start
NumSteps == 1         \* installation steps of run_installation that are modelled

SIDS == {"A", "B"}                 \* connection identifiers (request.sid)
Handlers == 1..NumHandlers
PTYS == 1..MaxEvents               \* a PTY pair and its shell, by allocation order
FDS == 1..(2 * MaxEvents)          \* descriptor numbers, lowest free first
Absent == 0                        \* a key missing from the event's data
BadDim == 70000                    \* a value struct.pack('H') refuses
ColsVals == {Absent, 80}
RowsVals == {Absent, 24, BadDim}

VARIABLES
    terminals,   \* the registry: sid -> [master_fd, slave_fd, process]
    fdtab,       \* fd -> [pty, side], side "none" when the fd is closed
    proc,        \* pty -> "none" | "running" | "terminated" | "exited"
    ptyOwner,    \* pty -> the sid whose init allocated it ("" before)
    winsize,     \* pty -> <<rows, cols>>
    ptyIn,       \* pty -> the payloads written to its master side, in order
    produced,    \* pty -> output chunks the slave side has written
    consumed,    \* pty -> output chunks read from the master side
    stolen,      \* pty -> input payloads read back from a slave-side descriptor
    attached,    \* shell -> the fd table entry its stdio was opened on
    nextPty,     \* PTY pairs allocated so far
    nEvents,     \* what the environment has done so far
    handlers,    \* handler thread -> its frame
    relays,      \* pty -> the relay task its init started
    emitted      \* sid -> the terminal_output events sent to that room

\* The installer window (SetupNexus.py, class TunnelInstallerGUI)
VARIABLES
    license_var,    \* the licence checkbox
    install_btn,    \* state of the Install button: "normal" | "disabled"
    cancel_btn,     \* state of the Cancel button
    is_installing,  \* the flag start_installation tests
    queue,          \* self.queue: messages posted and not yet polled
    console,        \* the console widget: the texts inserted, in order
    progress,       \* the progress bar: the last percentage shown
    gui_pc,         \* the Tk main loop: "idle", or inside start_installation
    threads         \* installation thread -> [pc, step]

guivars == <<license_var, install_btn, cancel_btn, is_installing, queue, console,
             progress, gui_pc, threads>>

\* The sensor probe (test_vibration.py)
VARIABLES
    config,         \* index into configs of the configuration being tried
    probe_pc,       \* position in __main__ / test_sensor
    ser_open,       \* the configurations whose serial port is open
    response,       \* what ser.read(29) returned
    result,         \* what test_sensor returned
    printed         \* the lines printed so far

probevars == <<config, probe_pc, ser_open, response, result, printed>>

\* The remote terminal bridge (server.py)
bridgevars == <<terminals, fdtab, proc, ptyOwner, winsize, ptyIn, produced, consumed,
                stolen, attached, nextPty, nEvents, handlers, relays, emitted>>

\* What a step of the bridge leaves alone: the other two programs.
outside == <<guivars, probevars>>

vars == <<bridgevars, guivars, probevars>>

osvars == <<fdtab, proc, ptyOwner, winsize, ptyIn, produced, consumed, stolen,
            attached, nextPty>>

\* ------------------------------------------------------------- OS model
ClosedFd == [pty |-> 0, side |-> "none"]
IsOpen(fd) == fd \in FDS /\ fdtab[fd].side # "none"
FreeFds == {fd \in FDS : fdtab[fd].side = "none"}
Lowest(S) == CHOOSE x \in S : \A y \in S : x <= y

\* The slave side of p has no opener left: no descriptor of this process
\* and no running shell.
Hangup(p) ==
    /\ \A fd \in FDS : ~(fdtab[fd].pty = p /\ fdtab[fd].side = "slave")
    /\ \A q \in PTYS : ~(proc[q] = "running" /\ attached[q].pty = p
                                              /\ attached[q].side = "slave")

Pending(p) == produced[p] - consumed[p]

\* --------------------------------------------------------------- frames
IdleFrame == [kind |-> "idle", sid |-> "", pc |-> "done", payload |-> 0,
              master_fd |-> 0, slave_fd |-> 0, process |-> 0]

\* What is sent on the terminal_output channel: the connected notice of
\* handle_terminal_connect, a chunk read from a pty (kind "output": chunk n of
\* the pty's output; kind "input": payload n read back from a slave side).
\* A "completed" notice is what the design asks a relay to send last.
NoOutput == [kind |-> "none", pty |-> 0, n |-> 0]
ConnectedNotice == [kind |-> "connected", pty |-> 0, n |-> 0]
CompletionNotice == [kind |-> "completed", pty |-> 0, n |-> 0]

\* A relay task: its position, its session_id, the master_fd it fetched, the
\* session (shell) whose registry entry it fetched it from, the chunk in hand.
NoRelay == [pc |-> "none", sid |-> "", master_fd |-> 0, session |-> 0, out |-> NoOutput]

Finished(h) == handlers[h].pc \in {"done", "raised"}

\* A frame after its handler returned or raised: what ran, and how it ended.
Ended(f, how) == [IdleFrame EXCEPT !.kind = f.kind, !.sid = f.sid, !.pc = how]

Goto(h, label) == handlers' = [handlers EXCEPT ![h].pc = label]
Finish(h, how) == handlers' = [handlers EXCEPT ![h] = Ended(handlers[h], how)]

At(h, kind, label) == handlers[h].kind = kind /\ handlers[h].pc = label

NoSession == [master_fd |-> 0, slave_fd |-> 0, process |-> 0]

\* terminals[s] = rec  and  del terminals[s]
Store(s, rec) == [x \in (DOMAIN terminals) \cup {s} |-> IF x = s THEN rec ELSE terminals[x]]
Delete(s) == [x \in (DOMAIN terminals) \ {s} |-> terminals[x]]

\* ------------------------------------------------- the installer window
Tids == 1..MaxInstalls
NoThread == [pc |-> "none", step |-> 0]
Running(t) == threads[t].pc \notin {"none", "finished"}

\* A queue entry (msg_type, msg_data).  `tid` is the thread whose put it was
\* (0: the main loop); the program does not store it.
Msg(type, data, tid) == [type |-> type, data |-> data, tid |-> tid]

\* TunnelInstallerGUI.__init__ and create_main_interface: the checkbox is
\* clear, both buttons are disabled, the queue is empty.
GuiInit ==
    /\ license_var = FALSE
    /\ install_btn = "disabled"
    /\ cancel_btn = "disabled"
    /\ is_installing = FALSE
    /\ queue = <<>>
    /\ console = <<>>
    /\ progress = 0
    /\ gui_pc = "idle"
    /\ threads = [t \in Tids |-> NoThread]

\* ------------------------------------------------------ the sensor probe
configs == << <<"/dev/ttyUSB0", 9600>>, <<"/dev/ttyUSB0", 230400>>,
             <<"/dev/ttyUSB2", 9600>>, <<"/dev/ttyUSB2", 230400>> >>
NoResponse == [len |-> 0, data |-> <<>>]

\* Before the for loop of __main__ takes its first configuration.
ProbeInit ==
    /\ config = 1
    /\ probe_pc = "loop"
    /\ ser_open = {}
    /\ response = NoResponse
    /\ result = FALSE
    /\ printed = <<>>

Init ==
    /\ terminals = [s \in {} |-> NoSession]
    /\ fdtab = [fd \in FDS |-> ClosedFd]
    /\ proc = [p \in PTYS |-> "none"]
    /\ ptyOwner = [p \in PTYS |-> ""]
    /\ winsize = [p \in PTYS |-> <<0, 0>>]
    /\ ptyIn = [p \in PTYS |-> <<>>]
    /\ produced = [p \in PTYS |-> 0]
    /\ consumed = [p \in PTYS |-> 0]
    /\ stolen = [p \in PTYS |-> 0]
    /\ attached = [p \in PTYS |-> ClosedFd]
    /\ nextPty = 0
    /\ nEvents = 0
    /\ handlers = [h \in Handlers |-> IdleFrame]
    /\ relays = [p \in PTYS |-> NoRelay]
    /\ emitted = [s \in SIDS |-> <<>>]
    /\ GuiInit
    /\ ProbeInit

\* ------------------------------------------------- event arrival (dispatch)
\* The transport starts the handler of an event in a thread of its own.
Dispatch(h, frame) ==
    /\ Finished(h)
    /\ handlers' = [handlers EXCEPT ![h] = frame]
    /\ nEvents < MaxEvents
    /\ nEvents' = nEvents + 1
    /\ UNCHANGED <<outside, terminals, osvars, relays, emitted>>

TerminalConnectEvent(h, s) ==
    Dispatch(h, [IdleFrame EXCEPT !.kind = "connect", !.sid = s, !.pc = "c_check"])

TerminalInputEvent(h, s) ==
    Dispatch(h, [IdleFrame EXCEPT !.kind = "input", !.sid = s, !.pc = "i_check",
                                  !.payload = nEvents + 1])

TerminalResizeEvent(h, s) ==
    Dispatch(h, [IdleFrame EXCEPT !.kind = "resize", !.sid = s, !.pc = "rz_check"])

DisconnectEvent(h, s) ==
    Dispatch(h, [IdleFrame EXCEPT !.kind = "disconnect", !.sid = s, !.pc = "d_check"])

\* handle_terminal_connect applying the init parameters to a session it found.
ConnectCheck_AppliesParams(h) ==
    /\ At(h, "connect", "c_check")
    /\ IF handlers[h].sid \in DOMAIN terminals
       THEN Goto(h, "rz_check")
       ELSE Goto(h, "c_openpty")
    /\ UNCHANGED <<outside, terminals, osvars, nEvents, relays, emitted>>

\* handle_terminal_connect without its membership test (lines 137-138 removed).
ConnectCheck_NoMembershipTest(h) ==
    /\ At(h, "connect", "c_check")
    /\ Goto(h, "c_openpty")
    /\ UNCHANGED <<outside, terminals, osvars, nEvents, relays, emitted>>

\* ------------------------------------------------ handle_terminal_connect
\* if session_id in terminals: return
ConnectCheck(h) ==
    /\ At(h, "connect", "c_check")
    /\ IF handlers[h].sid \in DOMAIN terminals
       THEN Finish(h, "done")
       ELSE Goto(h, "c_openpty")
    /\ UNCHANGED <<outside, terminals, osvars, nEvents, relays, emitted>>

\* master_fd, slave_fd = pty.openpty(): the two lowest free descriptors, or
\* OSError (no pty left).
ConnectOpenpty(h) ==
    /\ At(h, "connect", "c_openpty")
    /\ \E ok \in BOOLEAN :
         IF ok
         THEN LET m == Lowest(FreeFds)
                  s == Lowest(FreeFds \ {m})
                  p == nextPty + 1
              IN /\ fdtab' = [fdtab EXCEPT ![m] = [pty |-> p, side |-> "master"],
                                           ![s] = [pty |-> p, side |-> "slave"]]
                 /\ nextPty' = p
                 /\ ptyOwner' = [ptyOwner EXCEPT ![p] = handlers[h].sid]
                 /\ handlers' = [handlers EXCEPT ![h].pc = "c_popen",
                                                 ![h].master_fd = m,
                                                 ![h].slave_fd = s,
                                                 ![h].process = p]
         ELSE /\ Finish(h, "raised")
              /\ UNCHANGED <<fdtab, nextPty, ptyOwner>>
    /\ UNCHANGED <<outside, terminals, proc, winsize, ptyIn, produced, consumed, stolen, attached, nEvents,
                   relays, emitted>>

\* handle_terminal_connect storing its registry entry before the spawn: a
\* failing Popen then leaves the entry behind.
ConnectPopen_StoresBeforeSpawn(h) ==
    /\ At(h, "connect", "c_popen")
    /\ \E ok \in BOOLEAN :
         IF ok /\ IsOpen(handlers[h].slave_fd)
         THEN /\ proc' = [proc EXCEPT ![handlers[h].process] = "running"]
              /\ attached' = [attached EXCEPT ![handlers[h].process] =
                                  fdtab[handlers[h].slave_fd]]
              /\ Goto(h, "c_store")
              /\ UNCHANGED terminals
         ELSE /\ Finish(h, "raised")
              /\ terminals' = Store(handlers[h].sid,
                                    [master_fd |-> handlers[h].master_fd,
                                     slave_fd |-> handlers[h].slave_fd,
                                     process |-> handlers[h].process])
              /\ UNCHANGED <<proc, attached>>
    /\ UNCHANGED <<outside, fdtab, ptyOwner, winsize, ptyIn, produced, consumed,
                   stolen, nextPty, nEvents, relays, emitted>>

\* p = subprocess.Popen(['/bin/bash'], stdin=slave_fd, ...): the shell's stdio
\* is whatever slave_fd names now; OSError when the fork fails or slave_fd
\* is not open.
ConnectPopen(h) ==
    /\ At(h, "connect", "c_popen")
    /\ \E ok \in BOOLEAN :
         IF ok /\ IsOpen(handlers[h].slave_fd)
         THEN /\ proc' = [proc EXCEPT ![handlers[h].process] = "running"]
              /\ attached' = [attached EXCEPT ![handlers[h].process] =
                                  fdtab[handlers[h].slave_fd]]
              /\ Goto(h, "c_store")
         ELSE /\ Finish(h, "raised")
              /\ UNCHANGED <<proc, attached>>
    /\ UNCHANGED <<outside, terminals, fdtab, ptyOwner, winsize, ptyIn, produced, consumed,
                   stolen, nextPty, nEvents, relays, emitted>>

\* terminals[session_id] = {...}; if 'cols' in data and 'rows' in data: ...
\* (the event's data is drawn where the handler reads it)
ConnectStore(h) ==
    /\ At(h, "connect", "c_store")
    /\ terminals' = Store(handlers[h].sid,
                          [master_fd |-> handlers[h].master_fd,
                           slave_fd |-> handlers[h].slave_fd,
                           process |-> handlers[h].process])
    /\ \E c \in ColsVals, r \in RowsVals :
         IF c # Absent /\ r # Absent
         THEN Goto(h, "rz_check")
         ELSE Goto(h, "c_start")
    /\ UNCHANGED <<outside, osvars, nEvents, relays, emitted>>

\* socketio.start_background_task(target=read_terminal_output, session_id=...)
ConnectStartRelay(h) ==
    /\ At(h, "connect", "c_start")
    /\ relays' = [relays EXCEPT ![handlers[h].process] =
                     [NoRelay EXCEPT !.pc = "r_init", !.sid = handlers[h].sid]]
    /\ Goto(h, "c_emit")
    /\ UNCHANGED <<outside, terminals, osvars, nEvents, emitted>>

\* emit('terminal_output', {'data': 'Connected to ...'}) to the requesting client
ConnectEmit(h) ==
    /\ At(h, "connect", "c_emit")
    /\ emitted' = [emitted EXCEPT ![handlers[h].sid] = Append(@, ConnectedNotice)]
    /\ Finish(h, "done")
    /\ UNCHANGED <<outside, terminals, osvars, nEvents, relays>>

\* ------------------------------------------------- handle_terminal_resize
\* (an event handler, and called by handle_terminal_connect)
Resizing(h) == handlers[h].kind \in {"resize", "connect"}

\* Where the caller goes on when handle_terminal_resize returns.
AfterResize(h) ==
    IF handlers[h].kind = "connect" THEN Goto(h, "c_start") ELSE Finish(h, "done")

\* if session_id not in terminals: return
ResizeCheck(h) ==
    /\ Resizing(h) /\ handlers[h].pc = "rz_check"
    /\ IF handlers[h].sid \in DOMAIN terminals
       THEN Goto(h, "rz_get")
       ELSE AfterResize(h)
    /\ UNCHANGED <<outside, terminals, osvars, nEvents, relays, emitted>>

\* master_fd = terminals[session_id]['master_fd']   (KeyError when deleted)
ResizeGet(h) ==
    /\ Resizing(h) /\ handlers[h].pc = "rz_get"
    /\ IF handlers[h].sid \in DOMAIN terminals
       THEN handlers' = [handlers EXCEPT ![h].pc = "rz_ioctl",
                            ![h].master_fd = terminals[handlers[h].sid].master_fd]
       ELSE Finish(h, "raised")
    /\ UNCHANGED <<outside, terminals, osvars, nEvents, relays, emitted>>

\* struct.pack('HHHH', rows, cols, 0, 0): KeyError on a missing key,
\* struct.error on a value outside 0..65535
PackFails(rows, cols) ==
    \/ rows = Absent \/ cols = Absent
    \/ rows > 65535 \/ cols > 65535

\* The data handle_terminal_resize is given: the event's, or the two keys
\* handle_terminal_connect found in its own.
ResizeData(h) ==
    IF handlers[h].kind = "connect"
    THEN (ColsVals \ {Absent}) \X (RowsVals \ {Absent})
    ELSE ColsVals \X RowsVals

\* handle_terminal_resize packing cols before rows.
ResizeIoctl_ColsFirst(h) ==
    /\ Resizing(h) /\ handlers[h].pc = "rz_ioctl"
    /\ \E d \in ResizeData(h) :
         LET fd == handlers[h].master_fd
             cols == d[1]
             rows == d[2]
         IN IF PackFails(rows, cols) \/ ~IsOpen(fd)
            THEN /\ Finish(h, "raised")
                 /\ UNCHANGED winsize
            ELSE /\ winsize' = [winsize EXCEPT ![fdtab[fd].pty] = <<cols, rows>>]
                 /\ AfterResize(h)
    /\ UNCHANGED <<outside, terminals, fdtab, proc, ptyOwner, ptyIn, produced, consumed,
                   stolen, attached, nextPty, nEvents, relays, emitted>>

\* winsize = struct.pack(...); fcntl.ioctl(master_fd, TIOCSWINSZ, winsize)
ResizeIoctl(h) ==
    /\ Resizing(h) /\ handlers[h].pc = "rz_ioctl"
    /\ \E d \in ResizeData(h) :
         LET fd == handlers[h].master_fd
             cols == d[1]
             rows == d[2]
         IN IF PackFails(rows, cols) \/ ~IsOpen(fd)
            THEN /\ Finish(h, "raised")
                 /\ UNCHANGED winsize
            ELSE /\ winsize' = [winsize EXCEPT ![fdtab[fd].pty] = <<rows, cols>>]
                 /\ AfterResize(h)
    /\ UNCHANGED <<outside, terminals, fdtab, proc, ptyOwner, ptyIn, produced, consumed,
                   stolen, attached, nextPty, nEvents, relays, emitted>>

\* handle_terminal_input without its membership test (lines 175-176 removed).
InputCheck_NoMembershipTest(h) ==
    /\ At(h, "input", "i_check")
    /\ Goto(h, "i_get")
    /\ UNCHANGED <<outside, terminals, osvars, nEvents, relays, emitted>>

\* -------------------------------------------------- handle_terminal_input
\* if session_id not in terminals: return
InputCheck(h) ==
    /\ At(h, "input", "i_check")
    /\ IF handlers[h].sid \in DOMAIN terminals
       THEN Goto(h, "i_get")
       ELSE Finish(h, "done")
    /\ UNCHANGED <<outside, terminals, osvars, nEvents, relays, emitted>>

\* master_fd = terminals[session_id]['master_fd']
InputGet(h) ==
    /\ At(h, "input", "i_get")
    /\ IF handlers[h].sid \in DOMAIN terminals
       THEN handlers' = [handlers EXCEPT ![h].pc = "i_write",
                            ![h].master_fd = terminals[handlers[h].sid].master_fd]
       ELSE Finish(h, "raised")
    /\ UNCHANGED <<outside, terminals, osvars, nEvents, relays, emitted>>

\* os.write(master_fd, data['data'].encode()): OSError on a closed descriptor;
\* bytes written to a master side are the shell's input, bytes written to a
\* slave side come out of the master side as output.
InputWrite(h) ==
    /\ At(h, "input", "i_write")
    /\ LET f == handlers[h]
           e == fdtab[f.master_fd]
       IN IF ~IsOpen(f.master_fd)
          THEN /\ Finish(h, "raised")
               /\ UNCHANGED <<ptyIn, produced>>
          ELSE IF e.side = "master"
          THEN /\ ptyIn' = [ptyIn EXCEPT ![e.pty] = Append(@, f.payload)]
               /\ Finish(h, "done")
               /\ UNCHANGED produced
          ELSE /\ produced' = [produced EXCEPT ![e.pty] = @ + 1]
               /\ Finish(h, "done")
               /\ UNCHANGED ptyIn
    /\ UNCHANGED <<outside, terminals, fdtab, proc, ptyOwner, winsize, consumed, stolen, attached, nextPty,
                   nEvents, relays, emitted>>

\* handle_disconnect without its membership test (line 200 removed).
DisconnectCheck_NoMembershipTest(h) ==
    /\ At(h, "disconnect", "d_check")
    /\ Goto(h, "d_get")
    /\ UNCHANGED <<outside, terminals, osvars, nEvents, relays, emitted>>

\* ------------------------------------------------------ handle_disconnect
\* if session_id in terminals:
DisconnectCheck(h) ==
    /\ At(h, "disconnect", "d_check")
    /\ IF handlers[h].sid \in DOMAIN terminals
       THEN Goto(h, "d_get")
       ELSE Finish(h, "done")
    /\ UNCHANGED <<outside, terminals, osvars, nEvents, relays, emitted>>

\* term = terminals[session_id]
DisconnectGet(h) ==
    /\ At(h, "disconnect", "d_get")
    /\ IF handlers[h].sid \in DOMAIN terminals
       THEN LET term == terminals[handlers[h].sid]
            IN handlers' = [handlers EXCEPT ![h].pc = "d_terminate",
                                            ![h].master_fd = term.master_fd,
                                            ![h].slave_fd = term.slave_fd,
                                            ![h].process = term.process]
       ELSE Finish(h, "raised")
    /\ UNCHANGED <<outside, terminals, osvars, nEvents, relays, emitted>>

\* term['process'].terminate(): SIGTERM, or nothing when the shell is gone
DisconnectTerminate(h) ==
    /\ At(h, "disconnect", "d_terminate")
    /\ proc' = [proc EXCEPT ![handlers[h].process] =
                   IF @ = "running" THEN "terminated" ELSE @]
    /\ Goto(h, "d_close_master")
    /\ UNCHANGED <<outside, terminals, fdtab, ptyOwner, winsize, ptyIn, produced, consumed,
                   stolen, attached, nextPty, nEvents, relays, emitted>>

\* os.close(fd): OSError (EBADF) when the descriptor is not open
OsClose(h, fd, next) ==
    IF IsOpen(fd)
    THEN /\ fdtab' = [fdtab EXCEPT ![fd] = ClosedFd]
         /\ Goto(h, next)
    ELSE /\ Finish(h, "raised")
         /\ UNCHANGED fdtab

\* os.close(term['master_fd'])
DisconnectCloseMaster(h) ==
    /\ At(h, "disconnect", "d_close_master")
    /\ OsClose(h, handlers[h].master_fd, "d_close_slave")
    /\ UNCHANGED <<outside, terminals, proc, ptyOwner, winsize, ptyIn, produced, consumed,
                   stolen, attached, nextPty, nEvents, relays, emitted>>

\* os.close(term['slave_fd'])
DisconnectCloseSlave(h) ==
    /\ At(h, "disconnect", "d_close_slave")
    /\ OsClose(h, handlers[h].slave_fd, "d_del")
    /\ UNCHANGED <<outside, terminals, proc, ptyOwner, winsize, ptyIn, produced, consumed,
                   stolen, attached, nextPty, nEvents, relays, emitted>>

\* del terminals[session_id]   (KeyError when already deleted)
DisconnectDel(h) ==
    /\ At(h, "disconnect", "d_del")
    /\ IF handlers[h].sid \in DOMAIN terminals
       THEN /\ terminals' = Delete(handlers[h].sid)
            /\ Finish(h, "done")
       ELSE /\ Finish(h, "raised")
            /\ UNCHANGED terminals
    /\ UNCHANGED <<outside, osvars, nEvents, relays, emitted>>

\* --------------------------------------------------- read_terminal_output
RelayAt(k, label) == relays[k].pc = label
RelayGoto(k, label) == relays' = [relays EXCEPT ![k].pc = label]

\* if session_id not in terminals: return
RelayInit(k) ==
    /\ RelayAt(k, "r_init")
    /\ IF relays[k].sid \in DOMAIN terminals
       THEN RelayGoto(k, "r_get")
       ELSE RelayGoto(k, "returned")
    /\ UNCHANGED <<outside, terminals, osvars, nEvents, handlers, emitted>>

\* master_fd = terminals[session_id]['master_fd']   (outside the try)
RelayGet(k) ==
    /\ RelayAt(k, "r_get")
    /\ IF relays[k].sid \in DOMAIN terminals
       THEN relays' = [relays EXCEPT ![k].pc = "r_loop",
                          ![k].master_fd = terminals[relays[k].sid].master_fd,
                          ![k].session = terminals[relays[k].sid].process]
       ELSE RelayGoto(k, "raised")
    /\ UNCHANGED <<outside, terminals, osvars, nEvents, handlers, emitted>>

\* while session_id in terminals:
RelayLoop(k) ==
    /\ RelayAt(k, "r_loop")
    /\ IF relays[k].sid \in DOMAIN terminals
       THEN RelayGoto(k, "r_select")
       ELSE RelayGoto(k, "returned")
    /\ UNCHANGED <<outside, terminals, osvars, nEvents, handlers, emitted>>

\* A select that never reports the descriptor readable.
MayBeReady_Never(e) == {FALSE}

\* What select may report for an open descriptor: a master side is readable
\* when output is pending or the slave side hung up; a slave side may be
\* readable while input written to the master has not been read back.
MayBeReady(e) ==
    IF e.side = "master"
    THEN {Pending(e.pty) > 0 \/ Hangup(e.pty)}
    ELSE IF stolen[e.pty] < Len(ptyIn[e.pty]) THEN BOOLEAN ELSE {FALSE}

\* ready, _, _ = select.select([master_fd], [], [], 0.1); if ready:
\* (OSError on a closed descriptor: except: break)
RelaySelect(k) ==
    /\ RelayAt(k, "r_select")
    /\ IF ~IsOpen(relays[k].master_fd)
       THEN RelayGoto(k, "broke")
       ELSE \E ready \in MayBeReady(fdtab[relays[k].master_fd]) :
               IF ready THEN RelayGoto(k, "r_read") ELSE RelayGoto(k, "r_loop")
    /\ UNCHANGED <<outside, terminals, osvars, nEvents, handlers, emitted>>

\* os.read blocks: a master side with nothing pending and the slave side
\* open, or a slave side with no input left
ReadBlocks(fd) ==
    /\ IsOpen(fd)
    /\ IF fdtab[fd].side = "master"
       THEN Pending(fdtab[fd].pty) = 0 /\ ~Hangup(fdtab[fd].pty)
       ELSE stolen[fdtab[fd].pty] >= Len(ptyIn[fdtab[fd].pty])

\* output = os.read(master_fd, 1024).decode(...)
\* (OSError on a closed descriptor or after the slave side hung up: break)
RelayRead(k) ==
    /\ RelayAt(k, "r_read")
    /\ ~ReadBlocks(relays[k].master_fd)
    /\ LET fd == relays[k].master_fd
           e == fdtab[fd]
       IN IF ~IsOpen(fd) \/ (e.side = "master" /\ Pending(e.pty) = 0)
          THEN /\ RelayGoto(k, "broke")
               /\ UNCHANGED <<consumed, stolen>>
          ELSE IF e.side = "master"
          THEN /\ consumed' = [consumed EXCEPT ![e.pty] = @ + 1]
               /\ relays' = [relays EXCEPT ![k].pc = "r_emit",
                                ![k].out = [kind |-> "output", pty |-> e.pty,
                                             n |-> consumed[e.pty] + 1]]
               /\ UNCHANGED stolen
          ELSE /\ stolen' = [stolen EXCEPT ![e.pty] = @ + 1]
               /\ relays' = [relays EXCEPT ![k].pc = "r_emit",
                                ![k].out = [kind |-> "input", pty |-> e.pty,
                                             n |-> stolen[e.pty] + 1]]
               /\ UNCHANGED consumed
    /\ UNCHANGED <<outside, terminals, fdtab, proc, ptyOwner, winsize, ptyIn, produced,
                   attached, nextPty, nEvents, handlers, emitted>>

\* socketio.emit('terminal_output', {'data': output}, room=session_id)
RelayEmit(k) ==
    /\ RelayAt(k, "r_emit")
    /\ emitted' = [emitted EXCEPT ![relays[k].sid] = Append(@, relays[k].out)]
    /\ relays' = [relays EXCEPT ![k].pc = "r_loop", ![k].out = NoOutput]
    /\ UNCHANGED <<outside, terminals, osvars, nEvents, handlers>>

\* ------------------------------------------------------------ the shells
\* A running shell writes a chunk of output to its stdout.
ShellOutput(p) ==
    /\ proc[p] = "running"
    /\ attached[p].side = "slave"
    /\ nEvents < MaxEvents
    /\ nEvents' = nEvents + 1
    /\ produced' = [produced EXCEPT ![attached[p].pty] = @ + 1]
    /\ UNCHANGED <<outside, terminals, fdtab, proc, ptyOwner, winsize, ptyIn, consumed, stolen,
                   attached, nextPty, handlers, relays, emitted>>

\* A running shell exits on its own (the user types exit).
ShellExit(p) ==
    /\ proc[p] = "running"
    /\ nEvents < MaxEvents
    /\ nEvents' = nEvents + 1
    /\ proc' = [proc EXCEPT ![p] = "exited"]
    /\ UNCHANGED <<outside, terminals, fdtab, ptyOwner, winsize, ptyIn, produced, consumed,
                   stolen, attached, nextPty, handlers, relays, emitted>>

\* ======================================================================
\* The installer window, SetupNexus.py.  The callbacks of the Tk main loop
\* (button commands, the checkbox command, check_queue) run one at a time
\* in the main thread; the installation threads run beside it.
\* ======================================================================

StepText == "step"
CompleteText == "complete"
ErrorText == "error"
CancelledText == "cancelled"
StartingText == "starting"

Put(msgs) == queue' = queue \o msgs

\* The operator clicks the licence checkbox: Tk flips license_var and calls
\* check_license, which sets the Install button from the checkbox alone.
CheckLicense ==
    /\ gui_pc = "idle"
    /\ license_var' = ~license_var
    /\ install_btn' = IF license_var' THEN "normal" ELSE "disabled"
    /\ UNCHANGED <<cancel_btn, is_installing, queue, console, progress, gui_pc, threads>>
    /\ UNCHANGED <<bridgevars, probevars>>

\* The operator clicks Install (a disabled button does not call its command):
\* start_installation up to the creation of the thread.  `valid` is the
\* outcome of the two field checks.
StartInstallation ==
    /\ gui_pc = "idle"
    /\ install_btn = "normal"
    /\ \E valid \in BOOLEAN :
         IF is_installing \/ ~valid
         THEN UNCHANGED guivars
         ELSE /\ \E t \in Tids : threads[t].pc = "none"
              /\ is_installing' = TRUE
              /\ install_btn' = "disabled"
              /\ cancel_btn' = "normal"
              /\ console' = <<StartingText>>
              /\ gui_pc' = "starting"
              /\ UNCHANGED <<license_var, queue, progress, threads>>
    /\ UNCHANGED <<bridgevars, probevars>>

\* install_thread.start(): run_installation begins in a thread of its own.
StartThread ==
    /\ gui_pc = "starting"
    /\ LET t == CHOOSE x \in Tids :
                  threads[x].pc = "none" /\ \A y \in Tids : threads[y].pc = "none" => x <= y
       IN threads' = [threads EXCEPT ![t] = [pc |-> "steps", step |-> 0]]
    /\ gui_pc' = "idle"
    /\ UNCHANGED <<license_var, install_btn, cancel_btn, is_installing, queue, console, progress>>
    /\ UNCHANGED <<bridgevars, probevars>>

\* The operator clicks Cancel: cancel_installation.
CancelInstallation ==
    /\ gui_pc = "idle"
    /\ cancel_btn = "normal"
    /\ IF is_installing
       THEN /\ is_installing' = FALSE
            /\ Put(<<Msg("console", CancelledText, 0)>>)
       ELSE UNCHANGED <<is_installing, queue>>
    /\ UNCHANGED <<license_var, install_btn, cancel_btn, console, progress, gui_pc, threads>>
    /\ UNCHANGED <<bridgevars, probevars>>

\* run_installation, one installation step: the step's work, its console
\* lines and its progress message.  Nothing in the body reads is_installing.
RunStep(t) ==
    /\ threads[t].pc = "steps"
    /\ threads[t].step < NumSteps
    /\ threads' = [threads EXCEPT ![t].step = @ + 1]
    /\ Put(<<Msg("console", StepText, t), Msg("progress", threads[t].step + 1, t)>>)
    /\ UNCHANGED <<license_var, install_btn, cancel_btn, is_installing, console, progress, gui_pc>>
    /\ UNCHANGED <<bridgevars, probevars>>

\* After the last step: progress 100 and the completion lines.
RunComplete(t) ==
    /\ threads[t].pc = "steps"
    /\ threads[t].step = NumSteps
    /\ threads' = [threads EXCEPT ![t].pc = "finally"]
    /\ Put(<<Msg("progress", 100, t), Msg("console", CompleteText, t)>>)
    /\ UNCHANGED <<license_var, install_btn, cancel_btn, is_installing, console, progress, gui_pc>>
    /\ UNCHANGED <<bridgevars, probevars>>

\* run_installation without its finally clause: after the except clause the
\* thread ends, with the flag as it was and no 'done' message.
RunExcept_NoFinally(t) ==
    /\ threads[t].pc = "steps"
    /\ threads' = [threads EXCEPT ![t].pc = "finished"]
    /\ Put(<<Msg("console", ErrorText, t), Msg("progress", 0, t)>>)
    /\ UNCHANGED <<license_var, install_btn, cancel_btn, is_installing, console, progress, gui_pc>>
    /\ UNCHANGED <<bridgevars, probevars>>

\* A step raises: except Exception posts the error and progress 0.
RunExcept(t) ==
    /\ threads[t].pc = "steps"
    /\ threads' = [threads EXCEPT ![t].pc = "finally"]
    /\ Put(<<Msg("console", ErrorText, t), Msg("progress", 0, t)>>)
    /\ UNCHANGED <<license_var, install_btn, cancel_btn, is_installing, console, progress, gui_pc>>
    /\ UNCHANGED <<bridgevars, probevars>>

\* finally: self.is_installing = False
RunFinally(t) ==
    /\ threads[t].pc = "finally"
    /\ is_installing' = FALSE
    /\ threads' = [threads EXCEPT ![t].pc = "put_done"]
    /\ UNCHANGED <<license_var, install_btn, cancel_btn, queue, console, progress, gui_pc>>
    /\ UNCHANGED <<bridgevars, probevars>>

\* finally: self.queue.put(('done', None)), and the thread ends.
RunPutDone(t) ==
    /\ threads[t].pc = "put_done"
    /\ Put(<<Msg("done", 0, t)>>)
    /\ threads' = [threads EXCEPT ![t].pc = "finished"]
    /\ UNCHANGED <<license_var, install_btn, cancel_btn, is_installing, console, progress, gui_pc>>
    /\ UNCHANGED <<bridgevars, probevars>>

IsConsole(m) == m.type = "console"
IsProgress(m) == m.type = "progress"
IsDone(m) == m.type = "done"
Texts(msgs) == [i \in 1..Len(msgs) |-> msgs[i].data]

\* check_queue: get_nowait until the queue is empty, each message handled as
\* it is taken; the next call is scheduled 100 ms later.
CheckQueue ==
    /\ gui_pc = "idle"
    /\ queue' = <<>>
    /\ console' = console \o Texts(SelectSeq(queue, IsConsole))
    /\ LET shown == SelectSeq(queue, IsProgress)
       IN progress' = IF shown = <<>> THEN progress ELSE shown[Len(shown)].data
    /\ IF SelectSeq(queue, IsDone) # <<>>
       THEN install_btn' = "normal" /\ cancel_btn' = "disabled"
       ELSE UNCHANGED <<install_btn, cancel_btn>>
    /\ UNCHANGED <<license_var, is_installing, gui_pc, threads>>
    /\ UNCHANGED <<bridgevars, probevars>>

RunInstallation(t) == RunStep(t) \/ RunComplete(t) \/ RunExcept(t) \/ RunFinally(t) \/ RunPutDone(t)

InstallerNext ==
    \/ CheckLicense
    \/ StartInstallation
    \/ StartThread
    \/ CancelInstallation
    \/ CheckQueue
    \/ \E t \in Tids : RunInstallation(t)

InstallerSpec == Init /\ [][InstallerNext]_vars

\* Fairness: the main loop keeps running its callbacks and timers, and a
\* thread that can take a step takes one (a step's commands return).
FairInstallerSpec ==
    /\ InstallerSpec
    /\ WF_vars(StartThread)
    /\ WF_vars(CheckQueue)
    /\ \A t \in Tids : WF_vars(RunStep(t) \/ RunComplete(t) \/ RunFinally(t) \/ RunPutDone(t))


\* ======================================================================
\* The sensor probe, test_vibration.py: __main__ calls test_sensor for each
\* configuration in turn.
\* ======================================================================

FullLen == 29                   \* the bytes asked of ser.read
RespLens == {0, 10, FullLen}    \* a timeout, a partial answer, a full one
\* response[3:9] of a full answer: three big-endian signed registers
DataVals == { <<0, 0, 8, 0, 255, 128>>, <<127, 255, 128, 0, 0, 1>> }
Responses == {[len |-> n, data |-> <<>>] : n \in RespLens \ {FullLen}}
                 \cup {[len |-> FullLen, data |-> d] : d \in DataVals}

\* struct.unpack('>h', bytes)[0]
UnpackShort(hi, lo) ==
    LET u == hi * 256 + lo IN IF u >= 32768 THEN u - 65536 ELSE u

\* f"{v / 32768.0 * 16.0:.3f}" in thousandths of g: v / 2048 is exact in
\* binary floating point and the format rounds it half to even.
Thousandths(v) ==
    LET n == v * 1000
        q == n \div 2048
        r == n % 2048
    IN IF 2 * r < 2048 THEN q
       ELSE IF 2 * r > 2048 THEN q + 1
       ELSE IF q % 2 = 0 THEN q ELSE q + 1

Acceleration(data) ==
    << Thousandths(UnpackShort(data[1], data[2])),
       Thousandths(UnpackShort(data[3], data[4])),
       Thousandths(UnpackShort(data[5], data[6])) >>

Line(text, arg) == [text |-> text, arg |-> arg]
Prints(lines) == printed' = printed \o lines

\* for port, baud in configs: the next configuration, or the end of the list.
\* The call of test_sensor prints its "Testing sensor" line.
MainLoop ==
    /\ probe_pc = "loop"
    /\ IF config <= Len(configs)
       THEN /\ probe_pc' = "open"
            /\ response' = NoResponse
            /\ Prints(<<Line("Testing sensor", <<config>>)>>)
       ELSE /\ probe_pc' = "exit"
            /\ UNCHANGED <<response, printed>>
    /\ UNCHANGED <<config, ser_open, result>>
    /\ UNCHANGED <<bridgevars, guivars>>

\* ser = serial.Serial(...): the port opens, or SerialException (no such
\* device, busy, no permission) and test_sensor returns False.
SensorOpen ==
    /\ probe_pc = "open"
    /\ \E ok \in BOOLEAN :
         IF ok
         THEN /\ ser_open' = ser_open \cup {config}
              /\ Prints(<<Line("Serial port is open", <<config>>)>>)
              /\ probe_pc' = "write"
              /\ UNCHANGED result
         ELSE /\ Prints(<<Line("Serial error", <<>>)>>)
              /\ result' = FALSE
              /\ probe_pc' = "return"
              /\ UNCHANGED ser_open
    /\ UNCHANGED <<config, response>>
    /\ UNCHANGED <<bridgevars, guivars>>

\* ser.write(data_to_send): written, or an exception (device unplugged,
\* write timeout); the except clauses do not close the port.
SensorWrite ==
    /\ probe_pc = "write"
    /\ \E ok \in BOOLEAN :
         IF ok
         THEN /\ Prints(<<Line("Sending command", <<>>)>>)
              /\ probe_pc' = "read"
              /\ UNCHANGED result
         ELSE /\ Prints(<<Line("Sending command", <<>>), Line("Serial error", <<>>)>>)
              /\ result' = FALSE
              /\ probe_pc' = "return"
    /\ UNCHANGED <<config, ser_open, response>>
    /\ UNCHANGED <<bridgevars, guivars>>

\* response = ser.read(29): up to 29 bytes within the 2 s timeout, or an
\* exception.
SensorRead ==
    /\ probe_pc = "read"
    /\ \/ \E r \in Responses :
             /\ response' = r
             /\ probe_pc' = "report"
             /\ UNCHANGED <<result, printed>>
       \/ /\ Prints(<<Line("Serial error", <<>>)>>)
          /\ result' = FALSE
          /\ probe_pc' = "return"
          /\ UNCHANGED response
    /\ UNCHANGED <<config, ser_open>>
    /\ UNCHANGED <<bridgevars, guivars>>

\* if response: ... else: the lines printed about what was read.
SensorReport ==
    /\ probe_pc = "report"
    /\ IF response.len > 0
       THEN IF response.len >= FullLen
            THEN Prints(<<Line("Received", <<response.len>>),
                         Line("Success! Sensor responded with expected data length", <<>>),
                         Line("Acceleration", Acceleration(response.data))>>)
            ELSE Prints(<<Line("Received", <<response.len>>),
                         Line("Partial response received", <<response.len>>)>>)
       ELSE Prints(<<Line("No response from sensor - timeout", <<>>)>>)
    /\ probe_pc' = "close"
    /\ UNCHANGED <<config, ser_open, response, result>>
    /\ UNCHANGED <<bridgevars, guivars>>

\* ser.close(), and return True: the try block ended without an exception.
SensorClose ==
    /\ probe_pc = "close"
    /\ ser_open' = ser_open \ {config}
    /\ Prints(<<Line("Serial port closed", <<config>>)>>)
    /\ result' = TRUE
    /\ probe_pc' = "return"
    /\ UNCHANGED <<config, response>>
    /\ UNCHANGED <<bridgevars, guivars>>

\* if test_sensor(port, baud): print SUCCESS and break; else print Failed
\* and go on with the next configuration.
MainReport ==
    /\ probe_pc = "return"
    /\ IF result
       THEN /\ Prints(<<Line("SUCCESS: Sensor found", <<config>>)>>)
            /\ probe_pc' = "exit"
            /\ UNCHANGED config
       ELSE /\ Prints(<<Line("Failed", <<config>>)>>)
            /\ probe_pc' = "loop"
            /\ config' = config + 1
    /\ UNCHANGED <<ser_open, response, result>>
    /\ UNCHANGED <<bridgevars, guivars>>

ProbeNext ==
    \/ MainLoop
    \/ SensorOpen
    \/ SensorWrite
    \/ SensorRead
    \/ SensorReport
    \/ SensorClose
    \/ MainReport

ProbeSpec == Init /\ [][ProbeNext]_vars


\* --------------------------------------------------------- specifications
HandlerStep(h) ==
    \/ ConnectCheck(h) \/ ConnectOpenpty(h) \/ ConnectPopen(h) \/ ConnectStore(h)
    \/ ConnectStartRelay(h) \/ ConnectEmit(h)
    \/ ResizeCheck(h) \/ ResizeGet(h) \/ ResizeIoctl(h)
    \/ InputCheck(h) \/ InputGet(h) \/ InputWrite(h)
    \/ DisconnectCheck(h) \/ DisconnectGet(h) \/ DisconnectTerminate(h)
    \/ DisconnectCloseMaster(h) \/ DisconnectCloseSlave(h) \/ DisconnectDel(h)

RelayStep(k) ==
    \/ RelayInit(k) \/ RelayGet(k) \/ RelayLoop(k) \/ RelaySelect(k)
    \/ RelayRead(k) \/ RelayEmit(k)

Event(h) ==
    \/ \E s \in SIDS : TerminalConnectEvent(h, s)
    \/ \E s \in SIDS : TerminalInputEvent(h, s)
    \/ \E s \in SIDS : TerminalResizeEvent(h, s)
    \/ \E s \in SIDS : DisconnectEvent(h, s)

Next ==
    \/ \E h \in Handlers : (nEvents < MaxConcEvents /\ Event(h)) \/ HandlerStep(h)
    \/ \E k \in PTYS :
          \/ RelayStep(k)
          \/ nEvents < MaxConcEvents /\ (ShellOutput(k) \/ ShellExit(k))

Spec == Init /\ [][Next]_vars

\* Events delivered one at a time: the next handler starts when the last returned.
Quiet == \A h \in Handlers : Finished(h)

SeqNext ==
    \/ (Quiet /\ Event(1)) \/ HandlerStep(1)
    \/ \E k \in PTYS : RelayStep(k) \/ ShellOutput(k) \/ ShellExit(k)

SeqSpec == Init /\ [][SeqNext]_vars

\* Threads and background tasks keep being scheduled; nothing obliges a
\* client to send an event or a shell to write or exit.
FairSpec ==
    /\ Init /\ [][SeqNext]_vars
    /\ WF_vars(HandlerStep(1))
    /\ \A k \in PTYS : WF_vars(RelayStep(k))

\* ================================================================ claims
\* The shells started for identifier s that are running.
LiveShells(s) == {p \in PTYS : ptyOwner[p] = s /\ proc[p] = "running"}

MasterOpen(p) == \E fd \in FDS : fdtab[fd].pty = p /\ fdtab[fd].side = "master"

\* Session p is closed: no descriptor of its PTY is open, its shell is not
\* running and no registry entry holds it.
ReleasedIn(p, fds, procs, terms) ==
    /\ \A fd \in FDS : fds[fd].pty # p
    /\ procs[p] # "running"
    /\ \A s \in DOMAIN terms : terms[s].process # p

Released(p) == ReleasedIn(p, fdtab, proc, terminals)

RelayStopped(k) == relays[k].pc \in {"none", "returned", "raised", "broke"}

Count(seq, x) == Cardinality({i \in 1..Len(seq) : seq[i] = x})

\* ---- C1
C1_DuplicateInitStep ==
    \A h \in Handlers :
        (/\ At(h, "connect", "c_check")
         /\ handlers[h].sid \in DOMAIN terminals
         /\ handlers'[h] # handlers[h])
        => /\ handlers'[h].pc = "done"
           /\ UNCHANGED <<terminals, osvars, relays, emitted>>

\* C1: with the events delivered one at a time, an identifier never has more
\* than one running shell, and the handler of an init for an identifier that
\* is in the registry returns at once: it does not raise and changes neither
\* the registry, the descriptors, the shells, the relays nor what was sent.
C1_OneLiveSessionPerId ==
    /\ [](\A s \in SIDS : Cardinality(LiveShells(s)) <= 1)
    /\ [][C1_DuplicateInitStep]_vars

\* C1 witness: an init was the last event handled, it returned normally, and
\* its identifier's session had already taken input (so it was a duplicate).
C1_DuplicateInitHandled ==
    \E s \in DOMAIN terminals :
        /\ handlers[1].kind = "connect" /\ handlers[1].sid = s
        /\ handlers[1].pc = "done"
        /\ Len(ptyIn[terminals[s].process]) = 1
        /\ Cardinality(LiveShells(s)) = 1

\* ---- C2
\* C2: however init events are interleaved, an identifier has at most one
\* running shell (and PTY pair), and no init stores over an entry another
\* init stored.
C2_ConcurrentInitCreatesOne ==
    \A s \in SIDS :
        /\ Cardinality(LiveShells(s)) <= 1
        /\ \A h \in Handlers :
              At(h, "connect", "c_store") /\ handlers[h].sid = s => s \notin DOMAIN terminals

\* ---- C3
C3_CloseStep ==
    /\ \A k \in PTYS :
          (relays[k].pc # "broke" /\ relays'[k].pc = "broke")
          => ReleasedIn(relays[k].session, fdtab', proc', terminals')
    /\ \A h \in Handlers :
          (/\ handlers[h].kind = "disconnect"
           /\ handlers[h].pc \in {"d_terminate", "d_close_master", "d_close_slave", "d_del"}
           /\ handlers'[h].pc \in {"done", "raised"})
          => ReleasedIn(handlers[h].process, fdtab', proc', terminals')

\* C3: when a relay leaves its loop on a read error, and when a disconnect
\* handler that found a session ends (normally or by a failing cleanup step),
\* the session is closed: its descriptors are released, its shell is not
\* running and the registry has no entry for it.
C3_CloseAlwaysReleases == [][C3_CloseStep]_vars

\* ---- C4
\* C4: between events, for every session that was started, the PTY master
\* descriptor is open exactly when the shell is running.
C4_HandleAndShellTogether ==
    Quiet => \A p \in PTYS : proc[p] # "none" => (MasterOpen(p) <=> proc[p] = "running")

\* ---- C5
\* C5: once the shell of a session whose relay was started has exited on its
\* own, the session is eventually closed (descriptors released, no registry
\* entry) and its relay has stopped.
C5_ShellExitClosesSession ==
    \A p \in PTYS :
        (proc[p] = "exited" /\ ~Released(p) /\ relays[p].pc # "none")
            ~> (Released(p) /\ RelayStopped(p))

\* ---- C6
\* C6: for every identifier, the completion notices sent to it are as many as
\* its relays that left the loop on a read error: one each.
C6_OneCompletionNotice ==
    \A s \in SIDS :
        Count(emitted[s], CompletionNotice)
            = Cardinality({k \in PTYS : relays[k].sid = s /\ relays[k].pc = "broke"})

\* ---- C7
C7_EmitStep ==
    \A k \in PTYS :
        (relays[k].pc = "r_emit" /\ relays'[k].pc # "r_emit")
        => relays[k].sid \in DOMAIN terminals

\* C7: whenever a relay emits terminal_output, its identifier is in the
\* registry.
C7_NoEmitAfterRemoval == [][C7_EmitStep]_vars

\* ---- C8
C8_PollStep ==
    \A k \in PTYS :
        (/\ relays[k].pc \in {"r_select", "r_read"}
         /\ relays'[k] # relays[k]
         /\ IsOpen(relays[k].master_fd))
        => fdtab[relays[k].master_fd].pty = relays[k].session

\* C8: a relay polls and reads only the PTY of the session it was started
\* for: never the PTY of a later session that took over the descriptor
\* number.
C8_RelayKeepsToItsSession == [][C8_PollStep]_vars

\* ---- C9
C9_UnknownSessionStep ==
    \A h \in Handlers :
        (/\ handlers[h].kind \in {"input", "resize", "disconnect"}
         /\ handlers[h].pc \in {"i_check", "rz_check", "d_check"}
         /\ handlers[h].sid \notin DOMAIN terminals
         /\ handlers'[h] # handlers[h])
        => /\ handlers'[h].pc = "done"
           /\ UNCHANGED <<terminals, osvars, relays, emitted>>

\* C9: an input, resize or disconnect handler that finds no session for its
\* identifier returns at once without raising: the registry, the descriptors,
\* the PTYs (input, window size), the shells, the relays and what was sent
\* are unchanged.
C9_UnknownSessionIsNoOp == [][C9_UnknownSessionStep]_vars

\* C9 witness: an input event was handled and returned normally although no
\* PTY was ever allocated (no init came first).
C9_InputWithoutInitHandled ==
    \E h \in Handlers :
        /\ handlers[h].kind = "input" /\ handlers[h].pc = "done"
        /\ nextPty = 0
        /\ DOMAIN terminals = {}

\* ---- C10
C10_StartFailureStep ==
    \A h \in Handlers :
        (/\ handlers[h].kind = "connect"
         /\ handlers[h].pc \in {"c_openpty", "c_popen"}
         /\ handlers'[h].pc \in {"done", "raised"})
        => /\ handlers'[h].pc = "raised"
           /\ handlers[h].sid \notin DOMAIN terminals'
           /\ relays' = relays
           /\ handlers[h].process # 0 => relays[handlers[h].process].pc = "none"

\* C10: with the events delivered one at a time, an init whose PTY
\* allocation or shell spawn fails ends by raising to its caller, and then the
\* registry has no entry for its identifier and no relay was started for it.
C10_StartFailureLeavesNothing == [][C10_StartFailureStep]_vars

\* C10 witness: an init ended by raising after its PTY pair was allocated
\* (the spawn failed), and its identifier is not in the registry.
C10_SpawnFailed ==
    /\ handlers[1].kind = "connect" /\ handlers[1].pc = "raised"
    /\ handlers[1].sid \notin DOMAIN terminals
    /\ nextPty = 1 /\ proc[1] = "none"

\* ---- C11
C11_WriteFailureStep ==
    \A h \in Handlers :
        (/\ At(h, "input", "i_write")
         /\ ~IsOpen(handlers[h].master_fd)
         /\ handlers'[h] # handlers[h])
        => /\ handlers'[h].pc = "done"
           /\ handlers[h].sid \notin DOMAIN terminals'

\* C11: when the write of an input handler fails (the descriptor it fetched
\* from the registry is not open any more), the handler returns normally and
\* the session is closed: the registry has no entry for the identifier.
C11_WriteFailureClosesSession == [][C11_WriteFailureStep]_vars

\* ---- C12
\* C12: once the session a relay was started for is closed (descriptors
\* released, shell not running, no registry entry), the relay eventually
\* stops, or at least is no longer polling (it has a chunk to read or send).
C12_RelayStopsAfterClose ==
    \A p \in PTYS :
        (relays[p].pc # "none" /\ Released(p))
            ~> (RelayStopped(p) \/ relays[p].pc \in {"r_read", "r_emit"})

\* ---- C13
C13_InputStep ==
    \A p \in PTYS :
        ptyIn'[p] # ptyIn[p]
        => \E h \in Handlers :
              /\ At(h, "input", "i_write")
              /\ handlers[h].sid \in DOMAIN terminals
              /\ terminals[handlers[h].sid].process = p
              /\ ptyIn'[p] = Append(ptyIn[p], handlers[h].payload)

\* C13: the input of every PTY is the payloads of its session's input events
\* in the order the events were received (payloads are numbered by arrival):
\* each write appends one whole payload to the PTY of the writing handler's
\* own session, and no PTY ever holds a later payload before an earlier one.
C13_InputInOrder ==
    /\ [](\A p \in PTYS : \A i, j \in 1..Len(ptyIn[p]) :
              i < j => ptyIn[p][i] < ptyIn[p][j])
    /\ [][C13_InputStep]_vars

\* ---- C14
\* The chunks of PTY p's output sent to the room of identifier s, in the
\* order they were sent.
OutputsSent(s, p) ==
    SelectSeq(emitted[s], LAMBDA e : e.kind = "output" /\ e.pty = p)

\* C14: what was sent of a PTY's output went to the room of the session's own
\* identifier and is the chunks 1, 2, ... in the order they were read: none
\* missing, none twice, none out of order, none sent to another identifier.
C14_OutputInOrder ==
    \A s \in SIDS, p \in PTYS :
        IF ptyOwner[p] = s
        THEN \A i \in 1..Len(OutputsSent(s, p)) : OutputsSent(s, p)[i].n = i
        ELSE OutputsSent(s, p) = <<>>

\* ---- C15
\* The window sizes a well-formed resize can ask for: <<rows, cols>>.
GoodSizes == {<<r, c>> : r \in RowsVals \ {Absent, BadDim}, c \in ColsVals \ {Absent}}

C15_ResizeStep ==
    \A h \in Handlers :
        (/\ handlers[h].kind = "resize" /\ handlers[h].pc = "rz_ioctl"
         /\ handlers'[h].pc = "done")
        => /\ handlers[h].sid \in DOMAIN terminals
           /\ LET p == terminals[handlers[h].sid].process
              IN /\ winsize'[p] \in GoodSizes
                 /\ \A q \in PTYS \ {p} : winsize'[q] = winsize[q]

ClosedBefore(s) ==
    /\ s \notin DOMAIN terminals
    /\ \E p \in PTYS : ptyOwner[p] = s /\ proc[p] = "terminated" /\ Released(p)

C16_RepeatedDisconnectStep ==
    \A h \in Handlers :
        (/\ handlers[h].kind = "disconnect"
         /\ ~Finished(h)
         /\ ClosedBefore(handlers[h].sid)
         /\ handlers'[h] # handlers[h])
        => /\ handlers[h].pc = "d_check"
           /\ handlers'[h].pc = "done"
           /\ UNCHANGED <<terminals, fdtab, proc, relays, emitted>>

\* C16: with the events delivered one at a time, a disconnect for an
\* identifier whose session an earlier disconnect closed returns at its
\* membership test: it closes no descriptor, signals no process, changes
\* nothing and does not raise; and no disconnect handler ever raises.
C16_DisconnectIdempotent ==
    /\ [](\A h \in Handlers : ~(handlers[h].kind = "disconnect" /\ handlers[h].pc = "raised"))
    /\ [][C16_RepeatedDisconnectStep]_vars

\* C16 witness: the handler of a disconnect is running for an identifier whose
\* only session an earlier disconnect terminated and removed.
C16_SecondDisconnect ==
    /\ handlers[1].kind = "disconnect" /\ handlers[1].pc = "d_check"
    /\ ClosedBefore(handlers[1].sid)
    /\ nextPty = 1

\* ---- C17
\* Session p is the only one so far, is in the registry under its identifier
\* and its relay was started.
OnlySession(p) ==
    /\ nextPty = p /\ p = 1
    /\ relays[p].pc # "none"
    /\ ptyOwner[p] \in DOMAIN terminals
    /\ terminals[ptyOwner[p]].process = p

\* Chunk n of PTY p's output was sent to the room of p's identifier.
ChunkSent(p, n) ==
    /\ ptyOwner[p] \in SIDS
    /\ \E i \in 1..Len(emitted[ptyOwner[p]]) :
          emitted[ptyOwner[p]][i] = [kind |-> "output", pty |-> p, n |-> n]

C17_DisconnectStep ==
    \A h \in Handlers :
        (/\ handlers[h].kind = "disconnect" /\ handlers[h].pc = "d_del"
         /\ handlers'[h] # handlers[h])
        => /\ handlers'[h].pc = "done"
           /\ handlers[h].sid \notin DOMAIN terminals'
           /\ Cardinality(DOMAIN terminals') = Cardinality(DOMAIN terminals) - 1
           /\ proc'[handlers[h].process] # "running"

\* C17: with the events delivered one at a time and the relay scheduled, it
\* is always the case that eventually, if the first session is still the only
\* one and in the registry, every chunk its shell has written has been sent
\* to the session's identifier (the relay does not stay behind for ever); and
\* a disconnect that found a session ends with the identifier out of the
\* registry (one entry fewer) and the shell not running.
C17_InitInputOutputDisconnect ==
    /\ []<>(OnlySession(1) => \A n \in 1..produced[1] : ChunkSent(1, n))
    /\ [][C17_DisconnectStep]_vars

\* C17 witness: the scenario ran to its end: init, an input written to the
\* PTY, a chunk of output sent after the connected notice, then a disconnect
\* that left the registry empty and the shell terminated.
C17_ScenarioDone ==
    /\ handlers[1].kind = "disconnect" /\ handlers[1].pc = "done"
    /\ nextPty = 1 /\ Len(ptyIn[1]) = 1
    /\ emitted[handlers[1].sid] = <<ConnectedNotice, [kind |-> "output", pty |-> 1, n |-> 1]>>
    /\ DOMAIN terminals = {} /\ proc[1] = "terminated"

\* ---- C18
\* What makes up the session PTY p belongs to: its descriptors, its window
\* size, its shell, the input it was given, and its registry entry.
SessionState(p, fds, ws, procs, ins, terms) ==
    << {fd \in FDS : fds[fd].pty = p}, ws[p], procs[p], ins[p],
       {s \in DOMAIN terms : terms[s].process = p} >>

C18_HandlerStep ==
    \A h \in Handlers :
        (~Finished(h) /\ handlers'[h] # handlers[h])
        => \A p \in PTYS :
              (ptyOwner[p] \notin {"", handlers[h].sid})
              => SessionState(p, fdtab', winsize', proc', ptyIn', terminals')
                   = SessionState(p, fdtab, winsize, proc, ptyIn, terminals)

\* C18: a step of a handler working for one identifier (a failing step
\* included) leaves the session of every other identifier as it was: its
\* descriptors, window size, shell, input and registry entry.
C18_OtherSessionsUntouched == [][C18_HandlerStep]_vars

\* ---- C19
\* The init handlers that stored a session for s and have ended.
RelaysOf(s) == {k \in PTYS : relays[k].sid = s /\ relays[k].pc # "none"}

\* Session p was created for s: the shell was started and the entry stored.
Created(s, p) ==
    /\ ptyOwner[p] = s /\ proc[p] # "none"
    /\ \A h \in Handlers :
          ~(handlers[h].kind = "connect" /\ handlers[h].process = p /\ ~Finished(h))

\* C19: between events, every session an init created (shell started, its
\* handler ended) had its relay started, and the connected notices sent to
\* an identifier are as many as the relays started for it: one per created
\* session.
C19_InitStepsAllHappen ==
    Quiet =>
        \A s \in SIDS :
            /\ \A p \in PTYS : Created(s, p) => relays[p].pc # "none"
            /\ Count(emitted[s], ConnectedNotice) = Cardinality(RelaysOf(s))

\* ---- C20
\* A connect handler that found its identifier in the registry.
DuplicateInit(h) ==
    /\ handlers[h].kind = "connect" /\ handlers[h].process = 0
    /\ handlers[h].pc \notin {"c_check", "c_openpty", "done", "raised"}

C20_DuplicateInitStep ==
    \A h \in Handlers :
        (/\ At(h, "connect", "c_check")
         /\ handlers[h].sid \in DOMAIN terminals
         /\ handlers'[h] # handlers[h])
        => /\ Finished(h)'
           /\ winsize' = winsize
           /\ relays' = relays
           /\ emitted' = emitted
           /\ terminals' = terminals

\* C20: however the handlers interleave, an init that finds its identifier
\* in the registry ends at the membership test: it never goes on to the
\* resize, relay or notice statements, and its step changes neither a window
\* size, nor the relays, nor what was sent, nor the registry.
C20_DuplicateInitIgnoresParams ==
    /\ [](\A h \in Handlers : ~DuplicateInit(h))
    /\ [][C20_DuplicateInitStep]_vars

\* C20 witness: two inits for one identifier were handled and both returned
\* normally, yet a single PTY was allocated: one of them was a duplicate, and
\* the identifier has one relay and was sent one connected notice.
C20_DuplicateInitReturned ==
    \E s \in DOMAIN terminals :
        /\ \A h \in Handlers :
              handlers[h].kind = "connect" /\ handlers[h].sid = s /\ handlers[h].pc = "done"
        /\ nextPty = 1
        /\ Cardinality(RelaysOf(s)) = 1
        /\ Count(emitted[s], ConnectedNotice) = 1

\* ---- C21
\* The relays at work for identifier s.
RunningRelays(s) == {k \in PTYS : relays[k].sid = s /\ ~RelayStopped(k)}

\* C21: between events, every identifier in the registry has exactly one
\* relay at work.
C21_OneRelayPerEntry ==
    Quiet => \A s \in DOMAIN terminals : Cardinality(RunningRelays(s)) = 1

\* ---- C22
C22_UseStep ==
    /\ \A h \in Handlers :
          (handlers[h].pc \in {"i_write", "rz_ioctl"} /\ handlers'[h] # handlers[h])
          => IsOpen(handlers[h].master_fd)
    /\ \A k \in PTYS :
          (relays[k].pc \in {"r_select", "r_read"} /\ relays'[k] # relays[k])
          => IsOpen(relays[k].master_fd)

\* C22: no write, window-size request, select or read is ever issued on a
\* descriptor number that has been closed: a handler or relay that is about
\* to use the master_fd it fetched finds it open.
C22_NoUseAfterRelease == [][C22_UseStep]_vars

\* ---- C23
\* C23: every chunk sent to an identifier, and every chunk a relay holds to
\* send to its identifier, was read from a PTY that an init of that same
\* identifier allocated.
C23_OutputFromOwnPty ==
    /\ \A s \in SIDS : \A i \in 1..Len(emitted[s]) :
          emitted[s][i].kind \in {"output", "input"} => ptyOwner[emitted[s][i].pty] = s
    /\ \A k \in PTYS :
          relays[k].out.kind # "none" => ptyOwner[relays[k].out.pty] = relays[k].sid

\* ---- C24
\* C24: between events, every open PTY descriptor belongs to a session that
\* is in the registry (so the pair of an init whose spawn failed is closed).
C24_NoHandleWithoutEntry ==
    Quiet =>
        \A fd \in FDS :
            IsOpen(fd) => \E s \in DOMAIN terminals : terminals[s].process = fdtab[fd].pty

\* ---- C25
\* C25: at most one installation thread is running at any time.
C25_OneInstallationThread == Cardinality({t \in Tids : Running(t)}) <= 1

\* ---- C26
CancelMsg == Msg("console", CancelledText, 0)

\* A progress message of an installation step of thread t (the except
\* clause's "Installation failed" is progress 0).
StepProgress(m, t) == m.type = "progress" /\ m.tid = t /\ m.data > 0

\* C26: when one installation thread alone has been started, the queue never
\* holds a step progress message of that thread behind the cancellation
\* message: the thread posts no step progress once Cancel was invoked.
C26_NoProgressAfterCancel ==
    \A t \in Tids :
        (\A u \in Tids \ {t} : threads[u].pc = "none") =>
            \A i, j \in 1..Len(queue) :
                (i < j /\ queue[i] = CancelMsg) => ~StepProgress(queue[j], t)

\* ---- C27
\* The messages of thread t in q, in order.
MsgsOf(q, t) == LET ByThread(m) == m.tid = t IN SelectSeq(q, ByThread)

DoneMsg(t) == Msg("done", 0, t)

C27_Step ==
    \* a thread ends by putting 'done', and an ended thread puts nothing more
    /\ \A t \in Tids :
          /\ (threads[t].pc # "finished" /\ threads'[t].pc = "finished")
                => queue' = Append(queue, DoneMsg(t))
          /\ threads[t].pc = "finished"
                => /\ threads'[t] = threads[t]
                   /\ Len(MsgsOf(queue', t)) <= Len(MsgsOf(queue, t))
    \* a poll that empties the queue handled its messages first to last
    /\ (queue # <<>> /\ queue' = <<>>)
          => /\ console' = console \o Texts(SelectSeq(queue, IsConsole))
             /\ (\E i \in 1..Len(queue) : IsProgress(queue[i]))
                   => progress' = SelectSeq(queue, IsProgress)[Len(SelectSeq(queue, IsProgress))].data
             /\ (\E i \in 1..Len(queue) : IsDone(queue[i]))
                   => install_btn' = "normal" /\ cancel_btn' = "disabled"

\* C27: every started installation thread ends, and ends by putting one
\* 'done' message, its last; 'done' is never in the queue before the other
\* messages of its thread; a poll handles the queue first to last and on
\* 'done' enables Install and disables Cancel; between callbacks
\* is_installing is false when no installation thread is running.
C27_DoneAndPolling ==
    /\ \A t \in Tids : Running(t) ~> (threads[t].pc = "finished")
    /\ [][C27_Step]_vars
    /\ [](\A t \in Tids : \A i \in 1..Len(queue) :
             queue[i] = DoneMsg(t)
                => /\ threads[t].pc = "finished"
                   /\ \A j \in 1..Len(queue) : (j > i) => queue[j].tid # t)
    /\ []((gui_pc = "idle" /\ \A t \in Tids : ~Running(t)) => ~is_installing)

\* C27 witness: a first installation raised before its last step, a second
\* one completed, and everything they put was polled: the console shows the
\* second run to its completion line, progress is 100, Install is enabled
\* and Cancel disabled, the flag is clear.
C27_FailedThenCompleted ==
    /\ threads[1].pc = "finished" /\ threads[1].step < NumSteps
    /\ threads[2].pc = "finished" /\ threads[2].step = NumSteps
    /\ queue = <<>>
    /\ console = <<StartingText>> \o [i \in 1..NumSteps |-> StepText] \o <<CompleteText>>
    /\ progress = 100
    /\ install_btn = "normal" /\ cancel_btn = "disabled"
    /\ ~is_installing

\* ---- C28
\* C28: the Install button is enabled only while the licence checkbox is
\* checked.
C28_InstallNeedsLicense == install_btn = "normal" => license_var

\* ---- C29
\* C29: the probe prints "SUCCESS: Sensor found" for a configuration only
\* when the read of that configuration returned the full 29 bytes.
C29_SuccessOnlyOnFullResponse ==
    \A i \in 1..Len(printed) :
        printed[i].text = "SUCCESS: Sensor found" => response.len = FullLen

====
